---------------------------- MODULE Spec2Model ----------------------------
(***************************************************************************)
(* A model of the country normaliser: the text cleaner (clean_text), the   *)
(* reference data built at import time (CANONICAL_TO_REGION,               *)
(* CANONICAL_NAMES, ALIAS), the resolver (normalize_country), the table    *)
(* wrapper (process_csv) and the batch loop (analyze_files).               *)
(*                                                                         *)
(* A Python str is a sequence of characters; a character is a one-letter   *)
(* string, except the non-ASCII code points the model carries, written     *)
(* "u00C9" (LATIN CAPITAL LETTER E WITH ACUTE), "u00E9" and "u00FA" (the   *)
(* small letters e and u with acute) and "u0301" (COMBINING ACUTE ACCENT). *)
(* None and pandas' NaN are the one-element sequences <<"None">> and       *)
(* <<"NaN">>; an int, a float and a bool are sequences that begin with     *)
(* "int", "float" and "bool".  No str can equal any of them.               *)
(***************************************************************************)
EXTENDS Integers, Sequences, FiniteSets, TLC

VARIABLES pc, raw, cleaned, alias_map, CANONICAL_TO_REGION, CANONICAL_NAMES,
          result, region_rows, alias_rows, df, out, file_paths, idx,
          all_unmapped, log

vars == <<pc, raw, cleaned, alias_map, CANONICAL_TO_REGION, CANONICAL_NAMES,
          result, region_rows, alias_rows, df, out, file_paths, idx,
          all_unmapped, log>>

None == <<"None">>
NaN == <<"NaN">>
Unused == <<>>

---------------------------------------------------------------------------
(* Characters *)

LowerSeq == <<"a","b","c","d","e","f","g","h","i","j","k","l","m",
              "n","o","p","q","r","s","t","u","v","w","x","y","z">>
UpperSeq == <<"A","B","C","D","E","F","G","H","I","J","K","L","M",
              "N","O","P","Q","R","S","T","U","V","W","X","Y","Z">>
DigitSeq == <<"0","1","2","3","4","5","6","7","8","9">>

Range(f) == {f[i] : i \in DOMAIN f}

\* The characters of the model in code point order (str comparison, sorted()).
CodePoints == <<"\t", " ", "!", "#", "&", "'", "+", ",", "-", ".", "/">> \o DigitSeq
              \o <<"<", ">">> \o UpperSeq \o <<"_">> \o LowerSeq
              \o <<"u00C9", "u00E9", "u00FA", "u0301">>

Ord(c) == CHOOSE i \in DOMAIN CodePoints : CodePoints[i] = c

\* \s of re and the characters str.strip() removes.
IsSpace(c) == c \in {" ", "\t"}

\* \w of re on str: alphanumerics and the underscore.  A combining mark is
\* not alphanumeric; the precomposed letter is.
IsWord(c) == c \in Range(LowerSeq) \cup Range(UpperSeq) \cup Range(DigitSeq)
                   \cup {"_", "u00C9", "u00E9", "u00FA"}

\* unicodedata.normalize("NFKD", .) on one character: a precomposed letter
\* becomes the base letter and the combining accent.
NFKDChar(c) == IF c = "u00C9" THEN <<"E", "u0301">>
               ELSE IF c = "u00E9" THEN <<"e", "u0301">>
               ELSE IF c = "u00FA" THEN <<"u", "u0301">>
               ELSE <<c>>

\* str.lower() on one character: a capital becomes its small letter, the
\* accented capital included.
LowerChar(c) == IF c \in Range(UpperSeq)
                THEN LowerSeq[CHOOSE i \in DOMAIN UpperSeq : UpperSeq[i] = c]
                ELSE IF c = "u00C9" THEN "u00E9"
                ELSE c

---------------------------------------------------------------------------
(* Strings *)

\* A value computed once and then used under a name, as an assignment does.
Bind(v, F(_)) == CHOOSE r \in {F(x) : x \in {v}} : TRUE

\* unicodedata.normalize("NFKD", s): every character gives one code point or
\* two, in place; "" stands where a character gives no second one.
NFKD(s) ==
    SelectSeq([k \in 1..(2 * Len(s)) |->
                  IF k % 2 = 1 THEN NFKDChar(s[(k + 1) \div 2])[1]
                  ELSE IF Len(NFKDChar(s[k \div 2])) = 2 THEN NFKDChar(s[k \div 2])[2]
                  ELSE ""],
              LAMBDA c : c # "")

Lower(s) == [i \in DOMAIN s |-> LowerChar(s[i])]

RECURSIVE LStrip(_)
LStrip(s) == IF s # <<>> /\ IsSpace(Head(s)) THEN LStrip(Tail(s)) ELSE s
RECURSIVE RStrip(_)
RStrip(s) == IF s # <<>> /\ IsSpace(s[Len(s)])
             THEN RStrip(SubSeq(s, 1, Len(s) - 1)) ELSE s
Strip(s) == RStrip(LStrip(s))

\* Values other than str.
\*   <<"int", neg, digits>>: an int, its sign and its decimal digits without
\*       leading zeros.
\*   <<"float", neg, digits, decpt>>: a float other than NaN, which is
\*       0.d1d2... * 10^decpt for the digits d1d2...; they have no zero at
\*       either end and are none for zero; infinity has the digits <<"inf">>.
\*       The floats of the model have at most 15 significant digits and a
\*       decimal exponent of at most 22 either way, so that a float and its
\*       shortest decimal text determine each other.
\*   <<"bool", b>>: True or False.
\*   <<"NaN">>, <<"NaN", side, row>>: NaN; one taken out of a float64 column
\*       is a float object of its own and carries where it was taken from.

\* type(v), by name; NaN, a float, has a name of its own.
TypeOf(v) == IF v # <<>> /\ Head(v) \in {"None", "NaN", "int", "float", "bool"}
             THEN Head(v) ELSE "str"

\* str(n) of a natural number.
RECURSIVE NatText(_)
NatText(n) == IF n < 10 THEN <<DigitSeq[n + 1]>>
              ELSE NatText(n \div 10) \o <<DigitSeq[(n % 10) + 1]>>

\* int(s) of a text of digits; 0 for the empty text.
RECURSIVE NatOf(_)
NatOf(s) == IF s = <<>> THEN 0
            ELSE 10 * NatOf(SubSeq(s, 1, Len(s) - 1))
                 + (CHOOSE i \in DOMAIN DigitSeq : DigitSeq[i] = s[Len(s)]) - 1

\* repr(x) of a float: the shortest digits that give the float back, in
\* positional notation when the decimal point falls within 16 digits to the
\* right or 4 to the left of the first digit, with an exponent otherwise.
float_repr(x) ==
    LET d == x[3]
        p == x[4]
        e == IF p > 0 THEN p - 1 ELSE 1 - p
        body == IF d = <<"inf">> THEN <<"i", "n", "f">>
                ELSE IF d = <<>> THEN <<"0", ".", "0">>
                ELSE IF p > 16 \/ p < -3
                THEN <<d[1]>> \o (IF Len(d) > 1 THEN <<".">> \o Tail(d) ELSE <<>>)
                     \o <<"e", IF p > 0 THEN "+" ELSE "-">>
                     \o (IF e < 10 THEN <<"0">> ELSE <<>>) \o NatText(e)
                ELSE IF p <= 0 THEN <<"0", ".">> \o [i \in 1..(0 - p) |-> "0"] \o d
                ELSE IF p >= Len(d) THEN d \o [i \in 1..(p - Len(d)) |-> "0"] \o <<".", "0">>
                ELSE SubSeq(d, 1, p) \o <<".">> \o SubSeq(d, p + 1, Len(d))
    IN (IF x[2] THEN <<"-">> ELSE <<>>) \o body

\* str(x): the text of a value; float NaN prints as "nan".
Str(x) == IF TypeOf(x) = "NaN" THEN <<"n", "a", "n">>
          ELSE IF x = None THEN <<"N", "o", "n", "e">>
          ELSE IF TypeOf(x) = "int" THEN (IF x[2] THEN <<"-">> ELSE <<>>) \o x[3]
          ELSE IF TypeOf(x) = "float" THEN float_repr(x)
          ELSE IF TypeOf(x) = "bool" THEN (IF x[2] THEN <<"T", "r", "u", "e">>
                                  ELSE <<"F", "a", "l", "s", "e">>)
          ELSE x

\* Whether literal lit occurs in s at position i (1-based).
MatchesAt(s, i, lit) == /\ i + Len(lit) - 1 <= Len(s)
                        /\ \A k \in 1..Len(lit) : s[i + k - 1] = lit[k]

\* \b of re at the gap before position i (i in 1..Len(s)+1).
Boundary(s, i) ==
    LET before == i > 1 /\ IsWord(s[i - 1])
        after == i <= Len(s) /\ IsWord(s[i])
    IN before # after

\* re.sub(r"^the\s+", "", s): "the" at the start followed by one or more
\* whitespace characters is removed together with that whitespace, once.
SubLeadingThe(s) ==
    IF MatchesAt(s, 1, <<"t", "h", "e">>) /\ Len(s) >= 4 /\ IsSpace(s[4])
    THEN LStrip(SubSeq(s, 4, Len(s)))
    ELSE s

\* The alternatives of the filler pattern, in the order the pattern tries them.
\* The third, "república", is written with the precomposed u-acute, which no
\* NFKD-normalised text contains; it is kept as a literal the scan can never meet.
Fillers == << <<"r","e","p","u","b","l","i","c","a">>,
              <<"r","e","p","u00FA","b","l","i","c","a">>,
              <<"r","e","p","u","b","l","i","c">>,
              <<"r","e","p">>,
              <<"o","f">> >>

\* The length of the first alternative that matches at i between two \b, or 0.
FillerAt(s, i) ==
    LET ok(n) == /\ MatchesAt(s, i, Fillers[n])
                 /\ Boundary(s, i + Len(Fillers[n]))
        hits == {n \in DOMAIN Fillers : ok(n)}
    IN IF Boundary(s, i) /\ hits # {}
       THEN Len(Fillers[CHOOSE n \in hits : \A m \in hits : n <= m])
       ELSE 0

\* re.sub(r"\b(republica|república|republic|rep|of)\b", " ", s): a scan from
\* the left, non-overlapping matches.
\* From position i: the text up to the next match is kept, the match becomes
\* a space, and the scan goes on after it.
RECURSIVE SubFillersFrom(_, _)
SubFillersFrom(s, i) ==
    Bind({p \in i..Len(s) : FillerAt(s, p) > 0}, LAMBDA hits :
      IF hits = {} THEN SubSeq(s, i, Len(s))
      ELSE Bind(CHOOSE p \in hits : \A q \in hits : p <= q, LAMBDA p :
             SubSeq(s, i, p - 1) \o <<" ">> \o SubFillersFrom(s, p + FillerAt(s, p))))
SubFillers(s) == SubFillersFrom(s, 1)

\* re.sub(r"[^\w\s]", " ", s)
SubPunct(s) == [i \in DOMAIN s |-> IF IsWord(s[i]) \/ IsSpace(s[i]) THEN s[i] ELSE " "]

\* re.sub(r"\s+", " ", s): of a run of whitespace the first character becomes
\* a space and the others go; "" stands where a character goes.
CollapseSpaces(s) ==
    SelectSeq([i \in DOMAIN s |-> IF ~IsSpace(s[i]) THEN s[i]
                                  ELSE IF i > 1 /\ IsSpace(s[i - 1]) THEN ""
                                  ELSE " "],
              LAMBDA c : c # "")

clean_text(s) ==
    LET s1 == Strip(Lower(NFKD(Str(s))))
        s2 == SubLeadingThe(s1)
        s3 == SubFillers(s2)
        s4 == SubPunct(s3)
    IN Strip(CollapseSpaces(s4))

\* The texts made of at most n of the fragments frags, one after another.
RECURSIVE Texts(_, _)
Texts(frags, n) ==
    IF n = 0 THEN {<<>>}
    ELSE LET shorter == Texts(frags, n - 1)
         IN shorter \cup {t \o f : t \in shorter, f \in frags}

---------------------------------------------------------------------------
(* Reference data, built when the module is imported *)

\* A str made of the letters of a TLA+ string literal is written out as a
\* tuple; these are the names the model's reference data uses.
UnitedStates == <<"U","n","i","t","e","d"," ","S","t","a","t","e","s">>
BosniaAndHerzegovina == <<"B","o","s","n","i","a"," ","a","n","d"," ",
                          "H","e","r","z","e","g","o","v","i","n","a">>
BosniaHerzegovina == <<"B","o","s","n","i","a"," ","&"," ",
                       "H","e","r","z","e","g","o","v","i","n","a">>
America == <<"A","m","e","r","i","c","a">>
Europe == <<"E","u","r","o","p","e">>
usa == <<"u","s","a">>
us == <<"u","s">>
USA == <<"U","S","A">>

\* pandas.read_csv with its default arguments.  A cell is the text of a
\* field as the file gives it, quotes removed.

\* The texts read as a missing value: the default na_values of pandas 2, with
\* keep_default_na and na_filter left on.
NaValues ==
    { <<>>, <<"#","N","/","A">>, <<"#","N","/","A"," ","N","/","A">>, <<"#","N","A">>,
      <<"-","1",".","#","I","N","D">>, <<"-","1",".","#","Q","N","A","N">>,
      <<"-","N","a","N">>, <<"-","n","a","n">>,
      <<"1",".","#","I","N","D">>, <<"1",".","#","Q","N","A","N">>,
      <<"<","N","A",">">>, <<"N","/","A">>, <<"N","A">>, <<"N","U","L","L">>,
      <<"N","a","N">>, <<"N","o","n","e">>, <<"n","/","a">>, <<"n","a","n">>,
      <<"n","u","l","l">> }

\* One cell of a column of text: a missing value is NaN, anything else is
\* the text itself.
ReadCell(c) == IF c \in NaValues THEN NaN ELSE c

\* An optional sign in front of a text.
Signed(u) == IF u # <<>> /\ Head(u) \in {"-", "+"}
             THEN [neg |-> Head(u) = "-", rest |-> Tail(u)]
             ELSE [neg |-> FALSE, rest |-> u]

AllDigits(s) == \A i \in DOMAIN s : s[i] \in Range(DigitSeq)

RECURSIVE LStripZeros(_)
LStripZeros(s) == IF s # <<>> /\ Head(s) = "0" THEN LStripZeros(Tail(s)) ELSE s
RECURSIVE RStripZeros(_)
RStripZeros(s) == IF s # <<>> /\ s[Len(s)] = "0"
                  THEN RStripZeros(SubSeq(s, 1, Len(s) - 1)) ELSE s

\* The first position of s that holds a character of C, or Len(s) + 1.
IndexOf(s, C) == IF \E i \in DOMAIN s : s[i] \in C
                 THEN CHOOSE i \in DOMAIN s : s[i] \in C /\ \A j \in 1..(i - 1) : s[j] \notin C
                 ELSE Len(s) + 1

\* The integer parse of a cell: whitespace, an optional sign, digits,
\* whitespace.  The integers of the model fit 64 bits.
IsIntLiteral(c) == LET r == Signed(Strip(c)).rest IN r # <<>> /\ AllDigits(r)

IntOf(c) == LET u == Signed(Strip(c))
                d == LStripZeros(u.rest)
            IN IF d = <<>> THEN <<"int", FALSE, <<"0">>>> ELSE <<"int", u.neg, d>>

\* The parts of a cell read as a decimal number: sign, digits before and
\* after the point, and the exponent after e or E.
FloatParts(c) ==
    LET u == Signed(Strip(c))
        e == IndexOf(u.rest, {"e", "E"})
        mantissa == SubSeq(u.rest, 1, e - 1)
        dot == IndexOf(mantissa, {"."})
    IN [neg |-> u.neg,
        ip |-> SubSeq(mantissa, 1, dot - 1),
        fp |-> SubSeq(mantissa, dot + 1, Len(mantissa)),
        has_exp |-> e <= Len(u.rest),
        exp |-> Signed(SubSeq(u.rest, e + 1, Len(u.rest)))]

\* The float parse of a cell: whitespace, an optional sign, digits with an
\* optional point among them, an optional exponent with digits, whitespace.
IsFloatLiteral(c) ==
    LET p == FloatParts(c)
    IN /\ AllDigits(p.ip) /\ AllDigits(p.fp)
       /\ Len(p.ip) + Len(p.fp) > 0
       /\ p.has_exp => (p.exp.rest # <<>> /\ AllDigits(p.exp.rest))

\* "inf" and "infinity" with an optional sign, in any case, are floats too.
IsInfWord(c) == Signed(Lower(c)).rest \in {<<"i","n","f">>, <<"i","n","f","i","n","i","t","y">>}

FloatOf(c) ==
    IF IsInfWord(c) THEN <<"float", Signed(c).neg, <<"inf">>, 0>>
    ELSE LET p == FloatParts(c)
             d == LStripZeros(p.ip \o p.fp)
             e == IF p.has_exp
                  THEN (IF p.exp.neg THEN 0 - NatOf(p.exp.rest) ELSE NatOf(p.exp.rest))
                  ELSE 0
         IN IF d = <<>> THEN <<"float", p.neg, <<>>, 0>>
            ELSE <<"float", p.neg, RStripZeros(d), Len(d) + e - Len(p.fp)>>

\* One column: the first of int64, float64, bool that every cell can be
\* read as decides the type of the whole column; a column that fits none
\* holds text.  Integers beside a missing value are parsed as int64 and then
\* cast to float, so that "-0" is 0.0 there and not -0.0.  "true" and
\* "false", in any case, are the bools.  A missing
\* value is NaN; it cannot stand in an int64 column, and it makes a column of
\* bools a column of objects.  A column without rows holds objects.
ReadColumn(cells) ==
    LET present == {i \in DOMAIN cells : cells[i] \notin NaValues}
    IN IF cells = <<>> THEN <<>>
       ELSE IF present = DOMAIN cells /\ \A i \in present : IsIntLiteral(cells[i])
       THEN [i \in DOMAIN cells |-> IntOf(cells[i])]
       ELSE IF \A i \in present : IsIntLiteral(cells[i])
       THEN [i \in DOMAIN cells |->
                IF i \in present
                THEN (IF IntOf(cells[i])[3] = <<"0">> THEN <<"float", FALSE, <<>>, 0>>
                      ELSE FloatOf(cells[i]))
                ELSE NaN]
       ELSE IF \A i \in present : IsFloatLiteral(cells[i]) \/ IsInfWord(cells[i])
       THEN [i \in DOMAIN cells |-> IF i \in present THEN FloatOf(cells[i]) ELSE NaN]
       ELSE IF \A i \in present :
                   Lower(cells[i]) \in {<<"t","r","u","e">>, <<"f","a","l","s","e">>}
       THEN [i \in DOMAIN cells |->
                IF i \in present THEN <<"bool", Lower(cells[i]) = <<"t","r","u","e">>>> ELSE NaN]
       ELSE [i \in DOMAIN cells |-> ReadCell(cells[i])]

\* Iterating a column, as zip does: a float64 column gives a new float object
\* for every cell, so that no NaN out of it is the same object as another; a
\* column of objects gives the one NaN object it holds for every missing cell.
Items(column, side) ==
    LET float64 == \A i \in DOMAIN column : TypeOf(column[i]) \in {"float", "NaN"}
    IN [i \in DOMAIN column |->
           IF float64 /\ TypeOf(column[i]) = "NaN" THEN <<"NaN", side, i>> ELSE column[i]]

\* str < str: the first differing character decides, by code point.
StrLess(a, b) ==
    \E k \in 1..Len(b) :
        /\ \A i \in 1..(k - 1) : i <= Len(a) /\ a[i] = b[i]
        /\ (k > Len(a) \/ Ord(a[k]) < Ord(b[k]))

\* A number as a sign, digits and the place of the decimal point; a bool
\* counts as 0 or 1.
Magnitude(v) ==
    IF TypeOf(v) = "bool" THEN [neg |-> FALSE, digits |-> IF v[2] THEN <<"1">> ELSE <<>>, decpt |-> 1]
    ELSE IF TypeOf(v) = "int" THEN [neg |-> v[2], digits |-> RStripZeros(v[3]), decpt |-> Len(v[3])]
    ELSE [neg |-> v[2], digits |-> v[3], decpt |-> v[4]]

\* |a| < |b| for two numbers.
MagLess(a, b) ==
    IF b.digits = <<>> \/ a.digits = <<"inf">> THEN FALSE
    ELSE IF a.digits = <<>> \/ b.digits = <<"inf">> THEN TRUE
    ELSE a.decpt < b.decpt \/ (a.decpt = b.decpt /\ StrLess(a.digits, b.digits))

\* a < b for two numbers other than NaN.
NumLess(x, y) ==
    LET a == Magnitude(x)
        b == Magnitude(y)
    IN IF a.digits = <<>> /\ b.digits = <<>> THEN FALSE
       ELSE IF a.neg /\ a.digits # <<>>
       THEN (IF b.neg /\ b.digits # <<>> THEN MagLess(b, a) ELSE TRUE)
       ELSE (IF b.neg /\ b.digits # <<>> THEN FALSE ELSE MagLess(a, b))

\* k1 == k2 for two keys of a dict: the same object, or equal values.  A NaN
\* equals nothing else; numbers are equal by value, whatever their types.
SameKey(a, b) ==
    \/ a = b
    \/ /\ TypeOf(a) \in {"int", "float", "bool"} /\ TypeOf(b) \in {"int", "float", "bool"}
       /\ ~NumLess(a, b) /\ ~NumLess(b, a)

\* dict(zip(keys, values)) over the rows of a two-column table: a later row
\* with an equal key overwrites the value of an earlier one, whose key stays.
DictOfRows(rows) ==
    Bind(Items(ReadColumn([i \in DOMAIN rows |-> rows[i][1]]), "key"), LAMBDA keys :
      Bind(Items(ReadColumn([i \in DOMAIN rows |-> rows[i][2]]), "value"), LAMBDA values :
        Bind({i \in DOMAIN rows : \A j \in 1..(i - 1) : ~SameKey(keys[j], keys[i])},
             LAMBDA firsts :
          [k \in {keys[i] : i \in firsts} |->
              values[CHOOSE i \in DOMAIN rows :
                         /\ SameKey(keys[i], k)
                         /\ \A j \in DOMAIN rows : SameKey(keys[j], k) => j <= i]])))

\* sorted(S) for a set of str or a set of numbers other than NaN.
RECURSIVE Sorted(_)
Sorted(S) ==
    IF S = {} THEN <<>>
    ELSE LET least == CHOOSE x \in S : \A y \in S \ {x} :
                          IF TypeOf(x) = "str" THEN StrLess(x, y) ELSE NumLess(x, y)
         IN <<least>> \o Sorted(S \ {least})

\* CANONICAL_NAMES = sorted(set(CANONICAL_TO_REGION.keys()))
NamesOf(registry) == Sorted(DOMAIN registry)

\* sorted() raises TypeError when it compares a str with a float: the keys
\* are more than one, and a NaN is among text.
SortRaises(S) == (\E x \in S : TypeOf(x) = "str") /\ (\E x \in S : TypeOf(x) # "str")

\* The orders of S, as sequences.
RECURSIVE Orders(_)
Orders(S) == IF S = {} THEN {<<>>}
             ELSE UNION {{<<x>> \o rest : rest \in Orders(S \ {x})} : x \in S}

\* What sorted(set(keys)) can return.  Every comparison with a NaN is false,
\* and the order a set hands its elements over in follows their hashes, which
\* for a NaN is its address: among numbers with NaN any order can come out.
SortedOrders(S) ==
    IF Cardinality(S) > 1 /\ \E x \in S : TypeOf(x) = "NaN" THEN Orders(S) ELSE {Sorted(S)}

\* dict.get(k): the value under the key equal to k, or None without one.
Get(d, k) == IF \E x \in DOMAIN d : SameKey(x, k)
             THEN d[CHOOSE x \in DOMAIN d : SameKey(x, k)]
             ELSE None

---------------------------------------------------------------------------
(* difflib: SequenceMatcher.ratio and get_close_matches *)

\* The cutoff passed to get_close_matches, 0.85, as a fraction.
CutoffNum == 85
CutoffDen == 100

Count(s, c) == Cardinality({i \in DOMAIN s : s[i] = c})

\* SequenceMatcher.__chain_b with autojunk, the default: when b has 200
\* characters or more, a character found more than len(b) // 100 + 1 times in
\* b is popular and is left out of b2j, the index matches are found through.
\* No character is junk: get_close_matches passes no isjunk.
bpopular(b) == IF Len(b) >= 200
               THEN {c \in Range(b) : Count(b, c) > Len(b) \div 100 + 1}
               ELSE {}

\* j2len in find_longest_match: the length of the common run of a from i and
\* b from j inside a[..ahi], b[..bhi], over the characters b2j indexes.
RunLen(a, b, i, j, ahi, bhi, popular) ==
    LET most == IF ahi - i < bhi - j THEN ahi - i + 1 ELSE bhi - j + 1
        stops(k) == k >= most \/ a[i + k] # b[j + k] \/ b[j + k] \in popular
    IN IF most <= 0 THEN 0
       ELSE CHOOSE k \in 0..most : stops(k) /\ \A t \in 0..(k - 1) : ~stops(t)

\* The first extension loop of find_longest_match: how many equal characters
\* precede a[i] and b[j] down to alo and blo, popular ones included.
ExtendLeft(a, b, i, j, alo, blo) ==
    LET most == IF i - alo < j - blo THEN i - alo ELSE j - blo
        stops(k) == k >= most \/ a[i - 1 - k] # b[j - 1 - k]
    IN IF most <= 0 THEN 0
       ELSE CHOOSE k \in 0..most : stops(k) /\ \A t \in 0..(k - 1) : ~stops(t)

\* SequenceMatcher.find_longest_match(alo, ahi, blo, bhi), popular being the
\* characters of b that b2j lacks.  The longest common block of characters
\* b2j indexes is taken, of those the one starting earliest in a, and of those
\* the one starting earliest in b, (alo, blo, 0) when there is none; it is
\* then extended to the left and to the right over equal characters, popular
\* ones included.  Indices are 1-based and inclusive.  Every block starts at
\* a pair of equal indexed characters that does not continue a block, so only
\* those are measured.
find_longest_match(a, b, alo, ahi, blo, bhi, popular) ==
    Bind({p \in (alo..ahi) \X (blo..bhi) :
             /\ a[p[1]] = b[p[2]] /\ b[p[2]] \notin popular
             /\ (\/ p[1] = alo \/ p[2] = blo
                 \/ a[p[1] - 1] # b[p[2] - 1] \/ b[p[2] - 1] \in popular)}, LAMBDA starts :
      Bind([p \in starts |-> RunLen(a, b, p[1], p[2], ahi, bhi, popular)], LAMBDA size :
        Bind(IF starts = {} THEN <<alo, blo, 0>>
             ELSE Bind(CHOOSE p \in starts :
                           \A q \in starts :
                               \/ size[q] < size[p]
                               \/ size[q] = size[p]
                                  /\ (p[1] < q[1] \/ (p[1] = q[1] /\ p[2] <= q[2])),
                       LAMBDA best : <<best[1], best[2], size[best]>>), LAMBDA m :
          Bind(ExtendLeft(a, b, m[1], m[2], alo, blo), LAMBDA left :
            [i |-> m[1] - left, j |-> m[2] - left,
             size |-> left + m[3] + RunLen(a, b, m[1] + m[3], m[2] + m[3], ahi, bhi, {})]))))

\* The sum of the sizes of SequenceMatcher.get_matching_blocks(): the longest
\* block, then the same to its left and to its right.
RECURSIVE MatchCount(_, _, _, _, _, _, _)
MatchCount(a, b, alo, ahi, blo, bhi, popular) ==
    IF alo > ahi \/ blo > bhi THEN 0
    ELSE Bind(find_longest_match(a, b, alo, ahi, blo, bhi, popular), LAMBDA m :
           IF m.size = 0 THEN 0
           ELSE m.size
                + MatchCount(a, b, alo, m.i - 1, blo, m.j - 1, popular)
                + MatchCount(a, b, m.i + m.size, ahi, m.j + m.size, bhi, popular))

\* _calculate_ratio(matches, length) as the fraction <<numerator, denominator>>:
\* 2.0 * matches / length, and 1.0 when length is 0.
calculate_ratio(matches, length) ==
    IF length > 0 THEN <<2 * matches, length>> ELSE <<1, 1>>

\* SequenceMatcher(a, b).ratio()
ratio(a, b) ==
    Bind(a, LAMBDA x : Bind(b, LAMBDA y : Bind(bpopular(y), LAMBDA popular :
        calculate_ratio(MatchCount(x, y, 1, Len(x), 1, Len(y), popular), Len(x) + Len(y)))))

\* SequenceMatcher(a, b).real_quick_ratio(): an upper bound from the lengths.
real_quick_ratio(a, b) ==
    calculate_ratio(IF Len(a) < Len(b) THEN Len(a) ELSE Len(b), Len(a) + Len(b))

\* SequenceMatcher(a, b).quick_ratio(): an upper bound from the characters
\* the two have in common, counted with multiplicity.
quick_ratio(a, b) ==
    LET common(c) == IF Count(a, c) < Count(b, c) THEN Count(a, c) ELSE Count(b, c)
        RECURSIVE Sum(_)
        Sum(S) == IF S = {} THEN 0
                  ELSE LET c == CHOOSE x \in S : TRUE IN common(c) + Sum(S \ {c})
    IN calculate_ratio(Sum(Range(b)), Len(a) + Len(b))

\* Comparisons of two ratios given as fractions with positive denominators.
RatioLess(r, s) == r[1] * s[2] < s[1] * r[2]
RatioEq(r, s) == r[1] * s[2] = s[1] * r[2]

\* r >= cutoff
MeetsCutoff(r) == r[1] * CutoffDen >= CutoffNum * r[2]

\* get_close_matches(word, possibilities, n=1, cutoff=0.85): word is the
\* second sequence of the matcher and each possibility the first; the
\* possibilities that pass the three tests, scored; heapq.nlargest(1, .) keeps the greatest
\* (score, x) pair, so of equal scores the greater string.  Returns a list of
\* at most one string.
get_close_matches(word, possibilities) ==
    Bind({i \in DOMAIN possibilities :
             /\ MeetsCutoff(real_quick_ratio(possibilities[i], word))
             /\ MeetsCutoff(quick_ratio(possibilities[i], word))
             /\ MeetsCutoff(ratio(possibilities[i], word))}, LAMBDA passing :
      Bind([i \in passing |-> ratio(possibilities[i], word)], LAMBDA score :
        LET greater(i, j) == \/ RatioLess(score[j], score[i])
                             \/ /\ RatioEq(score[i], score[j])
                                /\ StrLess(possibilities[j], possibilities[i])
        IN IF passing = {} THEN <<>>
           ELSE LET top == CHOOSE i \in passing : \A j \in passing : ~greater(j, i)
                IN <<possibilities[top]>>))

---------------------------------------------------------------------------
(* The resolver *)

\* pd.isna(raw)
IsNa(v) == v = None \/ TypeOf(v) = "NaN"

\* bool(v): the empty str, None and a number equal to 0, False among them,
\* are false; NaN, a float that is not 0, is true.
Truthy(v) == IF v = None THEN FALSE
             ELSE IF TypeOf(v) = "NaN" THEN TRUE
             ELSE IF TypeOf(v) = "str" THEN v # <<>>
             ELSE ~SameKey(v, <<"int", FALSE, <<"0">>>>)

\* s.replace(" ", "")
NoSpace(s) == SelectSeq(s, LAMBDA c : c # " ")

\* s.split()[0] of a non-empty cleaned text: up to the first whitespace.
FirstToken(s) ==
    Bind({i \in DOMAIN s : IsSpace(s[i])}, LAMBDA spaces :
      IF spaces = {} THEN s
      ELSE SubSeq(s, 1, (CHOOSE i \in spaces : \A j \in spaces : i <= j) - 1))

\* clean_text(n).replace(" ", ""): the form canonical names are compared in.
CanonicalForm(n) == NoSpace(clean_text(n))

\* `cand in alias_map and alias_map[cand]`
AliasHit(am, cand) == cand \in DOMAIN am /\ Truthy(am[cand])

\* A mutant of FuzzyTier: the matched form is returned instead of the
\* canonical name it belongs to.
FuzzyTier_form(no_space, registry, names) ==
    Bind([i \in DOMAIN names |-> CanonicalForm(names[i])], LAMBDA forms :
      Bind(get_close_matches(no_space, forms), LAMBDA matches :
        IF matches # <<>>
        THEN <<matches[1], Get(registry, matches[1]), "fuzzy">>
        ELSE <<None, None, "unmapped">>))

\* The fuzzy tier: the best close match among the forms of the canonical
\* names, then the first canonical name with that form.
FuzzyTier(no_space, registry, names) ==
    Bind([i \in DOMAIN names |-> CanonicalForm(names[i])], LAMBDA forms :
      Bind(get_close_matches(no_space, forms), LAMBDA matches :
        IF matches # <<>>
        THEN LET first == CHOOSE i \in DOMAIN names :
                              /\ forms[i] = matches[1]
                              /\ \A j \in 1..(i - 1) : forms[j] # matches[1]
             IN <<names[first], Get(registry, names[first]), "fuzzy">>
        ELSE <<None, None, "unmapped">>))

normalize_country(rw, am, registry, names) ==
    IF IsNa(rw) \/ (TypeOf(rw) = "str" /\ Strip(rw) = <<>>) THEN <<None, None, "empty">>
    ELSE Bind(clean_text(Str(rw)), LAMBDA raw_clean :
           Bind(NoSpace(raw_clean), LAMBDA no_space :
             Bind(FirstToken(raw_clean), LAMBDA first :
               IF AliasHit(am, raw_clean)
               THEN <<am[raw_clean], Get(registry, am[raw_clean]), "alias">>
               ELSE IF AliasHit(am, no_space)
               THEN <<am[no_space], Get(registry, am[no_space]), "alias">>
               ELSE IF raw_clean # <<>> /\ AliasHit(am, first)
               THEN <<am[first], Get(registry, am[first]), "firstword">>
               ELSE FuzzyTier(no_space, registry, names))))

---------------------------------------------------------------------------
(* The resolver on its own: reference data and one raw value *)

MaxRawFrags == 3

\* How many times "ab" is repeated in the long texts: 200 characters.
MaxPairs == 100

RawFrags == { <<"T","h","e"," ">>, <<"U","S">>, <<"A">>, <<" ">>,
              <<"b","o","s","n","i","a"," ","a","n","d"," ","h","e","r","z","e","g","o","v">>,
              <<"x","y","z">> }

\* n times the text t.
Repeat(t, n) == [i \in 1..(n * Len(t)) |-> t[((i - 1) % Len(t)) + 1]]

\* A country name as long as the texts difflib treats differently.
LongName == <<"x">> \o Repeat(<<"a","b">>, MaxPairs)

\* Long raw values: the long name itself, the name without its first letter,
\* and the name without its first two letters.
LongValues == {LongName, Tail(LongName), Tail(Tail(LongName))}

\* The raw values handed to the resolver: texts, and an absent value.
RawValues == Texts(RawFrags, MaxRawFrags) \cup LongValues \cup {NaN}

\* Contents of country_region.csv.
RegionRowChoices ==
    { << <<UnitedStates, America>>, <<BosniaAndHerzegovina, Europe>>, <<LongName, Europe>> >>,
      << <<BosniaHerzegovina, Europe>>, <<BosniaAndHerzegovina, Europe>> >> }

\* Contents of alias_to_canonical.csv.  In the first, "usa" names a country no
\* registry here holds, the country cell of "a" is empty, and an alias one
\* letter short of a canonical name belongs to another country.  In the
\* second every country cell is a whole number, so pandas reads the column as
\* int64.
AliasRowChoices ==
    { << <<usa, USA>>, <<us, UnitedStates>>, <<<<"a">>, <<>>>>,
         <<<<"b","o","s","n","i","a"," ","a","n","d"," ","h","e","r","z","e","g","o","v">>,
           UnitedStates>> >>,
      << <<us, <<"0">>>>, <<usa, <<"7">>>> >> }

ResolveInit ==
    /\ pc = "ready"
    /\ region_rows \in RegionRowChoices
    /\ CANONICAL_TO_REGION = DictOfRows(region_rows)
    /\ CANONICAL_NAMES = NamesOf(CANONICAL_TO_REGION)
    /\ alias_rows \in AliasRowChoices
    /\ alias_map = DictOfRows(alias_rows)
    /\ raw = Unused /\ result = Unused
    /\ cleaned = Unused
    /\ df = Unused /\ out = Unused /\ file_paths = Unused /\ idx = 0
    /\ all_unmapped = Unused /\ log = Unused

\* normalize_country(raw, alias_map) on one raw value.
Resolve ==
    /\ pc = "ready"
    /\ \E r \in RawValues :
          /\ raw' = r
          /\ result' = normalize_country(r, alias_map, CANONICAL_TO_REGION, CANONICAL_NAMES)
    /\ pc' = "resolved"
    /\ UNCHANGED <<cleaned, alias_map, CANONICAL_TO_REGION, CANONICAL_NAMES,
                   region_rows, alias_rows, df, out, file_paths, idx, all_unmapped, log>>

ResolveNext == Resolve

SpecResolve == ResolveInit /\ [][ResolveNext]_vars

\* What the resolver returned, and what the claims below say about it.
Canon == result[1]
Region == result[2]
Kind == result[3]
Resolved == pc = "resolved"
NonBlank == ~IsNa(raw) /\ (TypeOf(raw) = "str" => Strip(raw) # <<>>)
RawClean == clean_text(Str(raw))
RawForm == NoSpace(RawClean)

\* bool(v) of a value of the alias index, as the claims speak of it.
CountsAsTrue(v) == v \notin {<<>>, None} /\ ~SameKey(v, <<"int", FALSE, <<"0">>>>)

\* C2: a non-blank raw value whose cleaned text is a key of the alias index
\* resolves as "alias", never as "firstword", "fuzzy" or "unmapped", whatever
\* the key maps to and whatever the registry holds.
C2_AliasPriorityEveryKey ==
    (Resolved /\ NonBlank /\ RawClean \in DOMAIN alias_map) => Kind = "alias"

\* C2 for the keys the code does honour: a key mapped to a value Python counts
\* as true, a NaN read from an empty country cell among them, resolves as
\* "alias" even where a canonical name is a close match of the raw value.
C2_AliasPriorityTrueValue ==
    (/\ Resolved /\ NonBlank /\ RawClean \in DOMAIN alias_map
     /\ CountsAsTrue(alias_map[RawClean]))
        => Kind = "alias"

NoAliasOrFirstWordHit ==
    \A c \in {RawClean} :
        /\ ~AliasHit(alias_map, c)
        /\ ~AliasHit(alias_map, NoSpace(c))
        /\ ~(c # <<>> /\ AliasHit(alias_map, FirstToken(c)))

\* The similarity ratio of two texts, 2 * matches / total length: the matches
\* are the characters of the common blocks, the longest block first and then
\* the same to its left and to its right, whatever the length of the texts.
Similarity(a, b) ==
    Bind(a, LAMBDA x : Bind(b, LAMBDA y :
        calculate_ratio(MatchCount(x, y, 1, Len(x), 1, Len(y), {}), Len(x) + Len(y))))

\* What C6 says of a resolved raw value: "fuzzy" exactly when the best
\* similarity ratio between its form and the form of a canonical name is at
\* least 0.85 (0.85 itself included); the name returned is then a registry
\* name of best similarity, with its region; otherwise the result is
\* (none, none, "unmapped").
FuzzyByThreshold ==
    Bind(RawForm, LAMBDA form :
      Bind([n \in DOMAIN CANONICAL_TO_REGION |-> Similarity(CanonicalForm(n), form)],
           LAMBDA sim :
        LET names == DOMAIN CANONICAL_TO_REGION
            close == {n \in names : sim[n][1] * 100 >= 85 * sim[n][2]}
        IN /\ (Kind = "fuzzy") <=> (close # {})
           /\ Kind = "fuzzy" =>
                 /\ Canon \in close
                 /\ \A n \in names : ~RatioLess(sim[Canon], sim[n])
                 /\ Region = CANONICAL_TO_REGION[Canon]
           /\ Kind # "fuzzy" => result = <<None, None, "unmapped">>))

\* C6: a non-blank raw value with no alias hit on its cleaned text or its
\* form and no first-word hit resolves as "fuzzy" if and only if the highest
\* similarity ratio is at least 0.85, and otherwise as "unmapped".
C6_FuzzyThreshold ==
    (Resolved /\ NonBlank /\ NoAliasOrFirstWordHit) => FuzzyByThreshold

\* C6 for raw values whose form has fewer than 200 characters, where difflib
\* indexes every character: there the code does what C6 says.
C6_FuzzyThresholdShort ==
    (Resolved /\ NonBlank /\ NoAliasOrFirstWordHit /\ Len(RawForm) < 200) => FuzzyByThreshold

\* C10 as stated: canonical and region are none exactly for "empty" and
\* "unmapped"; for "alias", "firstword" and "fuzzy" the canonical is a name of
\* the registry and the region is that name's region.
C10_WellFormedAlways ==
    Resolved =>
        /\ (Canon = None /\ Region = None) <=> (Kind \in {"empty", "unmapped"})
        /\ Kind \in {"alias", "firstword", "fuzzy"} =>
              /\ Canon \in DOMAIN CANONICAL_TO_REGION
              /\ Region = CANONICAL_TO_REGION[Canon]
              /\ Region # None

\* The key of the alias index a hit was made on: for "alias" the cleaned text
\* when the index maps it to a true value and else its form without spaces,
\* for "firstword" the first word of the cleaned text.
MatchedKey ==
    IF Kind = "firstword" THEN FirstToken(RawClean)
    ELSE IF RawClean \in DOMAIN alias_map /\ CountsAsTrue(alias_map[RawClean]) THEN RawClean
    ELSE RawForm

\* C10, amended: canonical and region are none exactly for "empty" and
\* "unmapped"; for "fuzzy" the canonical is a name of the registry and the
\* region is that name's region; for "alias" and "firstword" the canonical is
\* the value the alias index maps the matched key to, never the empty string
\* or another value Python counts as false (None, zero, False), and the region
\* is that name's region when the registry holds the name and none when it
\* does not.
C10_WellFormed ==
    Resolved =>
        /\ (Canon = None /\ Region = None) <=> (Kind \in {"empty", "unmapped"})
        /\ Kind \in {"empty", "unmapped", "alias", "firstword", "fuzzy"}
        /\ Kind = "fuzzy" =>
              /\ Canon \in DOMAIN CANONICAL_TO_REGION
              /\ Region = CANONICAL_TO_REGION[Canon]
        /\ Kind \in {"alias", "firstword"} =>
              /\ MatchedKey \in DOMAIN alias_map
              /\ Canon = alias_map[MatchedKey]
              /\ CountsAsTrue(Canon)
              /\ \A n \in DOMAIN CANONICAL_TO_REGION :
                    SameKey(n, Canon) => Region = CANONICAL_TO_REGION[n]
              /\ (\A n \in DOMAIN CANONICAL_TO_REGION : ~SameKey(n, Canon)) => Region = None

\* C10 witness: an alias hit on a name the registry does not hold: the
\* canonical is the text the index maps the key to, returned with no region.
C10_Witness ==
    /\ Resolved /\ Kind = "alias"
    /\ TypeOf(Canon) = "str" /\ Canon = alias_map[MatchedKey]
    /\ Canon \notin DOMAIN CANONICAL_TO_REGION
    /\ Region = None

---------------------------------------------------------------------------
(* Tables: detect_country_columns and process_csv *)

\* A DataFrame is [columns |-> the column names in order, data |-> the cells
\* of each column]; a Counter is a function from the keys counted to counts.
EmptyCounter == <<>>

\* counter[k] += n
Add(counter, k, n) ==
    [x \in DOMAIN counter \cup {k} |->
        IF x = k THEN (IF k \in DOMAIN counter THEN counter[k] ELSE 0) + n
        ELSE counter[x]]

\* counter[k], which is 0 for a key never counted.
CountOf(counter, k) == IF k \in DOMAIN counter THEN counter[k] ELSE 0

\* `sub in s`
Contains(s, sub) == \E i \in 1..(Len(s) - Len(sub) + 1) : MatchesAt(s, i, sub)

country_keywords == << <<"c","o","u","n","t","r","y">>, <<"n","a","t","i","o","n">>,
                       <<"p","a","i","s">>, <<"l","a","n","d">>,
                       <<"l","o","c","a","t","i","o","n">>, <<"o","r","i","g","i","n">> >>

\* The sample size and the share of it that must resolve, 0.3 as a fraction.
SampleSize == 20
ShareNum == 3
ShareDen == 10

\* Series.dtype == 'object' of a column read from a CSV: the column has no
\* cell at all, or holds text, or holds bools and a missing value.
IsObject(cells) ==
    \/ cells = <<>>
    \/ \E i \in DOMAIN cells : TypeOf(cells[i]) = "str"
    \/ (\E i \in DOMAIN cells : TypeOf(cells[i]) = "bool") /\ (\E i \in DOMAIN cells : TypeOf(cells[i]) = "NaN")

\* df[col].dropna().head(20).astype(str)
SampleValues(cells) ==
    LET present == SelectSeq(cells, LAMBDA v : ~IsNa(v))
        n == IF Len(present) < SampleSize THEN Len(present) ELSE SampleSize
    IN [i \in 1..n |-> Str(present[i])]

detect_country_columns(frame, am, registry, names) ==
    LET named(col) == \E k \in DOMAIN country_keywords :
                          Contains(Lower(col), country_keywords[k])
        potential_columns == SelectSeq(frame.columns, named)
        valued(col) ==
            /\ IsObject(frame.data[col])
            /\ LET sample_values == SampleValues(frame.data[col])
                   country_like_count ==
                       Cardinality({i \in DOMAIN sample_values :
                           Truthy(normalize_country(sample_values[i], am, registry, names)[1])})
               IN /\ Len(sample_values) > 0
                  /\ country_like_count * ShareDen > ShareNum * Len(sample_values)
    IN IF potential_columns # <<>> THEN potential_columns
       ELSE SelectSeq(frame.columns, valued)

\* A mutant of Tally: the raw text is the key, not its cleaned form.
Tally_raw(counter, value, status) ==
    IF status = "unmapped" /\ ~IsNa(value) /\ Strip(Str(value)) # <<>>
    THEN IF clean_text(Str(value)) # <<>> THEN Add(counter, Str(value), 1) ELSE counter
    ELSE counter

\* The tally of one cell: an unmapped, non-blank value is counted under its
\* cleaned text, unless that text is empty.
Tally(counter, value, status) ==
    IF status = "unmapped" /\ ~IsNa(value) /\ Strip(Str(value)) # <<>>
    THEN IF clean_text(Str(value)) # <<>> THEN Add(counter, clean_text(Str(value)), 1)
         ELSE counter
    ELSE counter

\* The loop over the cells of one column: the normalized values, the region
\* values and the tally after the cells from i on.
RECURSIVE NormalizeCells(_, _, _, _, _, _)
NormalizeCells(cells, i, counter, am, registry, names) ==
    IF i > Len(cells) THEN [normalized_values |-> <<>>, region_values |-> <<>>,
                            unmapped_counts |-> counter]
    ELSE LET value == cells[i]
         IN Bind(normalize_country(value, am, registry, names), LAMBDA res :
              Bind(NormalizeCells(cells, i + 1, Tally(counter, value, res[3]),
                                  am, registry, names), LAMBDA rest :
                [normalized_values |->
                     <<IF Truthy(res[1]) THEN res[1] ELSE value>> \o rest.normalized_values,
                 region_values |->
                     <<IF Truthy(res[2]) THEN res[2] ELSE None>> \o rest.region_values,
                 unmapped_counts |-> rest.unmapped_counts]))

\* The column pandas makes of a list handed to it (sanitize_array, which
\* infers the dtype with maybe_convert_objects).  A list with a str, or with a
\* bool, or of None only, or of ints only, or without values is stored as it
\* is.  Any other list, which holds numbers, NaN and None, becomes a float64
\* column: an int is stored as the float of its value, None and NaN as NaN.
sanitize_array(values) ==
    LET kinds == {TypeOf(values[i]) : i \in DOMAIN values}
        float64 == /\ kinds \subseteq {"int", "float", "NaN", "None"}
                   /\ kinds \notin {{}, {"None"}, {"int"}}
    IN [i \in DOMAIN values |->
           IF ~float64 THEN values[i]
           ELSE IF IsNa(values[i]) THEN NaN
           ELSE IF TypeOf(values[i]) = "int" THEN FloatOf(Str(values[i]))
           ELSE values[i]]

\* columns.get_loc(col)
get_loc(columns, col) == CHOOSE i \in DOMAIN columns : columns[i] = col

RegionName(col) == col \o <<"_","r","e","g","i","o","n">>

\* list.insert(loc, x) with a 0-based loc
InsertAt(s, loc, x) == SubSeq(s, 1, loc) \o <<x>> \o SubSeq(s, loc + 1, Len(s))

\* df_normalized.insert(col_index + 1, f"{col}_region", region_values), for a
\* frame that has no column of that name: the list becomes a column as pandas
\* stores it.  (get_loc is 1-based here, so the 0-based col_index + 1 is
\* get_loc itself.)
InsertRegion(frame, col, region_values) ==
    [columns |-> InsertAt(frame.columns, get_loc(frame.columns, col), RegionName(col)),
     data |-> [c \in DOMAIN frame.data \cup {RegionName(col)} |->
                  IF c = RegionName(col) THEN sanitize_array(region_values)
                  ELSE frame.data[c]]]

\* The loop over the country columns from the k-th on.  DataFrame.insert
\* raises ValueError when the frame already has a column of the new name.
RECURSIVE NormalizeColumns(_, _, _, _, _, _, _, _)
NormalizeColumns(frame, df_normalized, country_columns, k, counter, am, registry, names) ==
    IF k > Len(country_columns)
    THEN [status |-> "ok", frame |-> df_normalized, unmapped_counts |-> counter,
          country_columns |-> country_columns]
    ELSE LET col == country_columns[k]
         IN Bind(NormalizeCells(frame.data[col], 1, counter, am, registry, names),
                 LAMBDA done :
              Bind([df_normalized EXCEPT !.data[col] = sanitize_array(done.normalized_values)],
                   LAMBDA updated :
                IF RegionName(col) \in Range(updated.columns)
                THEN [status |-> "raised"]
                ELSE NormalizeColumns(frame, InsertRegion(updated, col, done.region_values),
                                      country_columns, k + 1, done.unmapped_counts,
                                      am, registry, names)))

\* process_csv(input_path), given what is at the path: [parses |-> whether
\* pd.read_csv can read it, columns, data].  The normalized frame and the
\* tally, or (None, {}) when no country column is detected, or an exception.
process_csv(content, am, registry, names) ==
    IF ~content.parses THEN [status |-> "raised"]
    ELSE LET frame == [columns |-> content.columns, data |-> content.data]
         IN Bind(detect_country_columns(frame, am, registry, names),
                 LAMBDA country_columns :
              IF country_columns = <<>>
              THEN [status |-> "nocolumns", frame |-> None,
                    unmapped_counts |-> EmptyCounter, country_columns |-> <<>>]
              ELSE NormalizeColumns(frame, frame, country_columns, 1, EmptyCounter,
                                    am, registry, names))

---------------------------------------------------------------------------
(* process_csv on one table *)

MaxRows == 2

Chad == <<"C","h","a","d">>
Chadd == <<"C","h","a","d","d">>
Africa == <<"A","f","r","i","c","a">>
Freedonia == <<"F","r","e","e","d","o","n","i","a">>
Bangs == <<"!","!","!">>
Country == <<"C","o","u","n","t","r","y">>
Name == <<"N","a","m","e">>
City == <<"C","i","t","y">>
origin == <<"o","r","i","g","i","n">>

\* The reference files behind the tables: two countries, one alias, and an
\* alias whose country cell is empty.
CsvRegionRows == << <<UnitedStates, America>>, <<Chad, Africa>> >>
CsvAliasRows == << <<usa, UnitedStates>>, <<us, <<>>>> >>

\* The reference files a table is processed with: those, or a registry with
\* a country whose region cell is empty and an alias file whose countries are
\* numbers.
CsvReferences ==
    { [region_rows |-> CsvRegionRows, alias_rows |-> CsvAliasRows],
      [region_rows |-> << <<UnitedStates, America>>, <<Chad, <<>>>> >>,
       alias_rows |-> << <<us, <<"0">>>>, <<usa, <<"7">>>> >>] }

\* The header of a table: each column's name and which of a row's two values
\* it shows.
Layouts ==
    { << [name |-> Country, shows |-> 1] >>,
      << [name |-> Name, shows |-> 2], [name |-> Country, shows |-> 1] >>,
      << [name |-> Country, shows |-> 1], [name |-> Name, shows |-> 1],
         [name |-> origin, shows |-> 2] >>,
      << [name |-> Country, shows |-> 1], [name |-> RegionName(Country), shows |-> 2] >>,
      << [name |-> Name, shows |-> 1], [name |-> City, shows |-> 2] >> }

\* The rows of a file, each a pair of cells: texts, an empty cell, a
\* number, a text pandas reads as a missing value, and a bool.
RowChoices ==
    { <<USA, Freedonia>>, <<Freedonia, <<>>>>, <<Bangs, USA>>, <<<<" ">>, Chadd>>,
      <<Chadd, Bangs>>, <<<<"U","S">>, USA \o <<" ","x">> >>,
      <<<<"7">>, <<"N","A">>>>, <<<<"2",".","5","0">>, <<"T","R","U","E">>>> }

RECURSIVE SeqsUpTo(_, _)
SeqsUpTo(S, n) ==
    IF n = 0 THEN {<<>>}
    ELSE LET shorter == SeqsUpTo(S, n - 1)
         IN shorter \cup {Append(s, x) : s \in {q \in shorter : Len(q) = n - 1}, x \in S}

\* pd.read_csv of a file with this header and these rows.
TableOf(layout, rows) ==
    [parses |-> TRUE,
     columns |-> [k \in DOMAIN layout |-> layout[k].name],
     data |-> [c \in {layout[k].name : k \in DOMAIN layout} |->
                  LET k == CHOOSE k \in DOMAIN layout : layout[k].name = c
                  IN ReadColumn([r \in DOMAIN rows |-> rows[r][layout[k].shows]])]]

Tables == {TableOf(layout, rows) : layout \in Layouts, rows \in SeqsUpTo(RowChoices, MaxRows)}

CsvInit ==
    /\ pc = "ready"
    /\ \E ref \in CsvReferences : /\ region_rows = ref.region_rows
                                  /\ alias_rows = ref.alias_rows
    /\ CANONICAL_TO_REGION = DictOfRows(region_rows)
    /\ CANONICAL_NAMES = NamesOf(CANONICAL_TO_REGION)
    /\ alias_map = DictOfRows(alias_rows)
    /\ df \in Tables
    /\ out = Unused
    /\ raw = Unused /\ result = Unused /\ cleaned = Unused
    /\ file_paths = Unused /\ idx = 0 /\ all_unmapped = Unused /\ log = Unused

\* process_csv on the table, with the module's ALIAS.
ProcessCsv ==
    /\ pc = "ready"
    /\ out' = process_csv(df, alias_map, CANONICAL_TO_REGION, CANONICAL_NAMES)
    /\ pc' = "processed"
    /\ UNCHANGED <<raw, cleaned, alias_map, CANONICAL_TO_REGION, CANONICAL_NAMES, result,
                   region_rows, alias_rows, df, file_paths, idx, all_unmapped, log>>

CsvNext == ProcessCsv

SpecCsv == CsvInit /\ [][CsvNext]_vars

\* What process_csv returned, and the cells it went through.
Processed == pc = "processed" /\ out.status = "ok"
Targets == Range(out.country_columns)
TargetCells == {<<c, r>> \in Targets \X (1..MaxRows + 1) : r <= Len(df.data[c])}
CellValue(cell) == df.data[cell[1]][cell[2]]
CellResult(cell) ==
    normalize_country(CellValue(cell), alias_map, CANONICAL_TO_REGION, CANONICAL_NAMES)
\* The cells the tally is about: resolved as "unmapped", not blank.
UnmappedCells == {cell \in TargetCells :
                     /\ CellResult(cell)[3] = "unmapped"
                     /\ ~IsNa(CellValue(cell)) /\ Strip(Str(CellValue(cell))) # <<>>}

RECURSIVE SumCounts(_)
SumCounts(counter) ==
    IF DOMAIN counter = {} THEN 0
    ELSE LET k == CHOOSE x \in DOMAIN counter : TRUE
         IN counter[k] + SumCounts([x \in DOMAIN counter \ {k} |-> counter[x]])

\* C4 as stated: every unmapped, non-blank cell is counted once, so the counts
\* add up to the number of such cells.
C4_TallyCountsEveryUnmappedCell ==
    Processed => SumCounts(out.unmapped_counts) = Cardinality(UnmappedCells)

\* C4, amended: after process_csv the tally holds, for every non-empty cleaned
\* text k, the number of target cells resolved as "unmapped" with a non-blank
\* raw value whose cleaned text is k; it has no other key, so the counts add up
\* to the number of unmapped cells whose cleaned text is not empty, and cells
\* resolved otherwise (and unmapped cells that clean to nothing) are not counted.
C4_TallyCounts ==
    Processed =>
        Bind({<<cell, clean_text(CellValue(cell))>> : cell \in UnmappedCells}, LAMBDA cleaned_cells :
          LET counted == {p \in cleaned_cells : p[2] # <<>>}
              keys == {p[2] : p \in counted}
          IN /\ DOMAIN out.unmapped_counts = keys
             /\ \A k \in keys :
                   out.unmapped_counts[k] = Cardinality({p \in counted : p[2] = k})
             /\ SumCounts(out.unmapped_counts) = Cardinality(counted))

\* C4 witness: a column with the same unmapped country twice, counted 2, next
\* to cells that resolve.
C4_Witness ==
    /\ Processed
    /\ \E k \in DOMAIN out.unmapped_counts : out.unmapped_counts[k] = 2
    /\ \E cell \in TargetCells : CellResult(cell)[3] = "alias"

\* C4 witness of the uncounted cell: "!!!" is unmapped and not blank, and no
\* key stands for it.
C4_EmptyKeyWitness ==
    /\ Processed
    /\ \E cell \in UnmappedCells : clean_text(CellValue(cell)) = <<>>
    /\ SumCounts(out.unmapped_counts) < Cardinality(UnmappedCells)

\* C5 as stated: after process_csv every target column is immediately
\* followed by its "_region" column, the original columns keep their order, a
\* target cell holds the resolved canonical name where resolution succeeded
\* and the unchanged raw value where it did not, the region cell holds the
\* resolved region or None, and the other columns are unchanged.
C5_ColumnInsertion ==
    Processed =>
        LET new == out.frame
        IN /\ Len(new.columns) = Len(df.columns) + Cardinality(Targets)
           /\ SelectSeq(new.columns, LAMBDA c : c \in Range(df.columns)) = df.columns
           /\ \A c \in Targets :
                 /\ RegionName(c) \in Range(new.columns)
                 /\ get_loc(new.columns, RegionName(c)) = get_loc(new.columns, c) + 1
           /\ \A cell \in TargetCells :
                 LET res == CellResult(cell)
                     c == cell[1]
                     r == cell[2]
                 IN /\ new.data[c][r] = IF res[3] \in {"empty", "unmapped"}
                                        THEN CellValue(cell) ELSE res[1]
                    /\ new.data[RegionName(c)][r] = res[2]
           /\ \A c \in Targets : /\ Len(new.data[c]) = Len(df.data[c])
                                 /\ Len(new.data[RegionName(c)]) = Len(df.data[c])
           /\ \A c \in Range(df.columns) \ Targets : new.data[c] = df.data[c]

\* Two cells that differ at most in how the column stores them: the same
\* value, numbers of one value (7 and 7.0), or two missing values (None, NaN).
SameStored(a, b) == a = b \/ SameKey(a, b) \/ (IsNa(a) /\ IsNa(b))

\* C5, the part that holds on every table: the columns are placed as stated,
\* and every target cell and region cell holds the stated value up to the
\* column's storage, a number kept by value and a missing value kept missing.
C5_ColumnInsertionStored ==
    Processed =>
        LET new == out.frame
        IN /\ Len(new.columns) = Len(df.columns) + Cardinality(Targets)
           /\ SelectSeq(new.columns, LAMBDA c : c \in Range(df.columns)) = df.columns
           /\ \A c \in Targets :
                 /\ RegionName(c) \in Range(new.columns)
                 /\ get_loc(new.columns, RegionName(c)) = get_loc(new.columns, c) + 1
           /\ \A cell \in TargetCells :
                 LET res == CellResult(cell)
                     c == cell[1]
                     r == cell[2]
                 IN /\ SameStored(new.data[c][r], IF res[3] \in {"empty", "unmapped"}
                                                  THEN CellValue(cell) ELSE res[1])
                    /\ SameStored(new.data[RegionName(c)][r], res[2])
           /\ \A c \in Targets : /\ Len(new.data[c]) = Len(df.data[c])
                                 /\ Len(new.data[RegionName(c)]) = Len(df.data[c])
           /\ \A c \in Range(df.columns) \ Targets : new.data[c] = df.data[c]

\* C5, a table that process_csv goes through as stated: two target columns
\* with another column between them, one cell resolved and one left as it was.
C5_Witness ==
    /\ Processed
    /\ Cardinality(Targets) = 2
    /\ Len(out.frame.columns) = 5
    /\ \A cell \in TargetCells :
          out.frame.data[cell[1]][cell[2]] =
              IF CellResult(cell)[3] \in {"empty", "unmapped"} THEN CellValue(cell)
              ELSE CellResult(cell)[1]
    /\ \E cell \in TargetCells : CellResult(cell)[3] = "alias"
    /\ \E cell \in TargetCells : CellResult(cell)[3] = "unmapped"

\* C5, the table it fails on: a cell resolved to the int an alias maps it to
\* stands beside an empty cell, and the column holds the float of that value.
C5_StoredAsFloat ==
    /\ Processed
    /\ \E cell \in TargetCells :
          /\ CellResult(cell)[3] = "alias"
          /\ TypeOf(CellResult(cell)[1]) = "int"
          /\ TypeOf(out.frame.data[cell[1]][cell[2]]) = "float"
          /\ SameKey(out.frame.data[cell[1]][cell[2]], CellResult(cell)[1])

\* C5, the other table it fails on: an unmapped cell beside a cell of a country
\* whose region is missing in the registry has NaN, not None, for its region.
C5_RegionNaN ==
    /\ Processed
    /\ \E cell \in TargetCells :
          /\ CellResult(cell)[3] = "unmapped"
          /\ CellResult(cell)[2] = None
          /\ TypeOf(out.frame.data[RegionName(cell[1])][cell[2]]) = "NaN"

---------------------------------------------------------------------------
(* analyze_files: the loop over the files of a batch *)

MaxFiles == 3

\* Values counted fewer times than this in a file are left out of its report.
MinReported == 2

csv == <<".","c","s","v">>
CSV == <<".","C","S","V">>
txt == <<".","t","x","t">>

\* What is at a path: whether the file exists, its suffix, and its content.
FileOf(exists, suffix, table) ==
    [exists |-> exists, suffix |-> suffix, parses |-> table.parses,
     columns |-> table.columns, data |-> table.data]

Unparsable == [parses |-> FALSE, columns |-> <<>>, data |-> <<>>]

TwiceTable == TableOf(<< [name |-> Country, shows |-> 1] >>,
                      << <<Freedonia, <<>>>>, <<Freedonia, <<>>>> >>)
OnceTable == TableOf(<< [name |-> Country, shows |-> 1] >>,
                     << <<Freedonia, <<>>>>, <<USA, <<>>>> >>)
CollidingTable == TableOf(<< [name |-> Country, shows |-> 1],
                             [name |-> RegionName(Country), shows |-> 2] >>,
                          << <<Freedonia, Freedonia>>, <<Freedonia, Freedonia>> >>)
PlainTable == TableOf(<< [name |-> Name, shows |-> 1] >>, << <<Freedonia, <<>>>> >>)

FileChoices ==
    { FileOf(FALSE, csv, TwiceTable),
      FileOf(TRUE, txt, TwiceTable),
      FileOf(TRUE, csv, Unparsable),
      FileOf(TRUE, csv, CollidingTable),
      FileOf(TRUE, csv, PlainTable),
      FileOf(TRUE, csv, TwiceTable),
      FileOf(TRUE, CSV, OnceTable) }

BatchInit ==
    /\ pc = "loop"
    /\ region_rows = CsvRegionRows
    /\ alias_rows = CsvAliasRows
    /\ CANONICAL_TO_REGION = DictOfRows(region_rows)
    /\ CANONICAL_NAMES = NamesOf(CANONICAL_TO_REGION)
    /\ alias_map = DictOfRows(alias_rows)
    /\ file_paths \in SeqsUpTo(FileChoices, MaxFiles)
    /\ idx = 1
    /\ all_unmapped = EmptyCounter
    /\ log = <<>>
    /\ df = Unused /\ out = Unused
    /\ raw = Unused /\ result = Unused /\ cleaned = Unused

InLoop == pc = "loop" /\ idx <= Len(file_paths)
IsCsv(file) == Lower(file.suffix) = csv
Returned(file) == process_csv(file, alias_map, CANONICAL_TO_REGION, CANONICAL_NAMES)

\* The end of one pass of the loop: the file is logged and the next is taken.
Continue(outcome) ==
    /\ log' = Append(log, [file |-> idx, outcome |-> outcome])
    /\ idx' = idx + 1
    /\ UNCHANGED <<pc, raw, cleaned, alias_map, CANONICAL_TO_REGION, CANONICAL_NAMES,
                   result, region_rows, alias_rows, df, out, file_paths>>

\* all_unmapped[value] += count for the entries of a file's tally that reach
\* MinReported.
MergeReported(total, counts) ==
    [k \in DOMAIN total \cup {x \in DOMAIN counts : counts[x] >= MinReported} |->
        CountOf(total, k) + (IF CountOf(counts, k) >= MinReported THEN counts[k] ELSE 0)]

FileNotFound ==
    /\ InLoop
    /\ ~file_paths[idx].exists
    /\ UNCHANGED all_unmapped
    /\ Continue("notfound")

SkipNonCsv ==
    /\ InLoop
    /\ file_paths[idx].exists /\ ~IsCsv(file_paths[idx])
    /\ UNCHANGED all_unmapped
    /\ Continue("notcsv")

\* A mutant of ProcessRaises: the exception is not caught and ends the batch.
ProcessRaises_uncaught ==
    /\ InLoop
    /\ file_paths[idx].exists /\ IsCsv(file_paths[idx])
    /\ Returned(file_paths[idx]).status = "raised"
    /\ pc' = "crashed"
    /\ log' = Append(log, [file |-> idx, outcome |-> "raised"])
    /\ UNCHANGED <<idx, all_unmapped, raw, cleaned, alias_map, CANONICAL_TO_REGION,
                   CANONICAL_NAMES, result, region_rows, alias_rows, df, out, file_paths>>

\* process_csv raises; `except Exception` reports it.
ProcessRaises ==
    /\ InLoop
    /\ file_paths[idx].exists /\ IsCsv(file_paths[idx])
    /\ Returned(file_paths[idx]).status = "raised"
    /\ UNCHANGED all_unmapped
    /\ Continue("raised")

NoColumns ==
    /\ InLoop
    /\ file_paths[idx].exists /\ IsCsv(file_paths[idx])
    /\ Returned(file_paths[idx]).status = "nocolumns"
    /\ UNCHANGED all_unmapped
    /\ Continue("nocolumns")

ProcessOk ==
    /\ InLoop
    /\ file_paths[idx].exists /\ IsCsv(file_paths[idx])
    /\ Returned(file_paths[idx]).status = "ok"
    /\ all_unmapped' = MergeReported(all_unmapped, Returned(file_paths[idx]).unmapped_counts)
    /\ Continue("ok")

\* After the last file: the overall summary is printed.
Summary ==
    /\ pc = "loop" /\ idx > Len(file_paths)
    /\ pc' = "done"
    /\ UNCHANGED <<idx, all_unmapped, log, raw, cleaned, alias_map, CANONICAL_TO_REGION,
                   CANONICAL_NAMES, result, region_rows, alias_rows, df, out, file_paths>>

BatchNext == \/ FileNotFound \/ SkipNonCsv \/ ProcessRaises \/ NoColumns \/ ProcessOk
             \/ Summary

\* The control flow of the loop, apart from what a pass does with its file:
\* `for file_path in file_paths` takes the next file while there is one, and
\* the summary follows the last.
LoopPass ==
    \/ pc = "loop" /\ idx <= Len(file_paths) /\ idx' = idx + 1 /\ pc' = pc
    \/ pc = "loop" /\ idx > Len(file_paths) /\ idx' = idx /\ pc' = "done"

\* The loop is sequential code that always goes on to its next step.
SpecBatch == BatchInit /\ [][BatchNext]_vars /\ WF_<<pc, idx>>(LoopPass)

\* The files of the batch that process_csv handled without failing.
Succeeded == {i \in DOMAIN file_paths :
                 /\ file_paths[i].exists /\ IsCsv(file_paths[i])
                 /\ Returned(file_paths[i]).status = "ok"}

\* The count of key k summed over the tallies process_csv returns for the
\* files S.
RECURSIVE FileCountSum(_, _)
FileCountSum(S, k) ==
    IF S = {} THEN 0
    ELSE LET i == CHOOSE j \in S : TRUE
         IN CountOf(Returned(file_paths[i]).unmapped_counts, k) + FileCountSum(S \ {i}, k)

\* C3: when the batch is done, the merged tally's count for every key is the
\* sum of the counts the successfully processed files have for it.
C3_MergeSumsCounts ==
    pc = "done" =>
        \A k \in DOMAIN all_unmapped
                 \cup UNION {DOMAIN Returned(file_paths[i]).unmapped_counts : i \in Succeeded} :
            CountOf(all_unmapped, k) = FileCountSum(Succeeded, k)

\* What the loop does with a file, read off the file alone.
OutcomeOf(file) ==
    IF ~file.exists THEN "notfound"
    ELSE IF ~IsCsv(file) THEN "notcsv"
    ELSE Returned(file).status

\* C7, step by step: every pass of the loop takes the file at idx, logs it
\* with its outcome and moves to the next file, whatever the outcome; a file
\* that is missing, is not a CSV, has no country column or raises leaves the
\* merged tally as it was.
C7_Step ==
    InLoop =>
        /\ pc' = "loop"
        /\ idx' = idx + 1
        /\ log' = Append(log, [file |-> idx, outcome |-> OutcomeOf(file_paths[idx])])
        /\ OutcomeOf(file_paths[idx]) # "ok" => all_unmapped' = all_unmapped

\* C7, in the end: every file of the list has been attempted, in list order.
AllAttempted ==
    /\ pc = "done"
    /\ Len(log) = Len(file_paths)
    /\ \A i \in DOMAIN log : log[i].file = i

\* C7, at every file: the loop has a pass to make for it, with one of the five
\* outcomes.
Attemptable ==
    InLoop => OutcomeOf(file_paths[idx]) \in {"notfound", "notcsv", "raised", "nocolumns", "ok"}

\* C7: per-file failure isolation: every file of the list is eventually
\* attempted, in list order, and a failing file is reported and skipped, does
\* not stop the files after it and leaves the merged tally unchanged.
C7_FailureIsolation == []Attemptable /\ [][C7_Step]_vars /\ <>AllAttempted

\* C7 witness: a batch is done in which a file raised and a file after it was
\* processed and merged into the tally.
C7_Witness ==
    /\ pc = "done"
    /\ \E i, j \in DOMAIN log :
          /\ i < j
          /\ log[i].outcome = "raised"
          /\ log[j].outcome = "ok"
    /\ all_unmapped # EmptyCounter

---------------------------------------------------------------------------
(* Loading the reference data when the module is imported, then resolving *)

MaxRefRows == 2

DottedUSA == <<"U",".","S",".","A",".">>

Namibia == <<"N","a","m","i","b","i","a">>

\* Rows of country_region.csv: "United States" is there with two regions, and
\* one row has no country.
RegionRowSet ==
    { <<UnitedStates, America>>, <<UnitedStates, Europe>>, <<Chad, Africa>>,
      <<<<>>, Africa>> }

\* Rows of alias_to_canonical.csv: "usa" is there with two countries,
\* "U.S.A." is an alias as a person would write it, "NA" is the country
\* code of Namibia, and one country cell holds the number "-0".
AliasRowSet ==
    { <<usa, UnitedStates>>, <<usa, Chad>>, <<DottedUSA, UnitedStates>>, <<us, <<>>>>,
      <<<<"N","A">>, Namibia>>, <<us, <<"-","0">>>> }

LoadInit ==
    /\ pc = "import"
    /\ region_rows \in SeqsUpTo(RegionRowSet, MaxRefRows)
    /\ alias_rows \in SeqsUpTo(AliasRowSet, MaxRefRows)
    /\ CANONICAL_TO_REGION = Unused /\ CANONICAL_NAMES = Unused /\ alias_map = Unused
    /\ raw = Unused /\ result = Unused /\ cleaned = Unused
    /\ df = Unused /\ out = Unused /\ file_paths = Unused /\ idx = 0
    /\ all_unmapped = Unused /\ log = Unused

\* The module-level statements that read the two files and build
\* CANONICAL_TO_REGION, CANONICAL_NAMES and ALIAS.  Nothing looks at the rows
\* before they go into the dicts.  When sorted() raises, the import fails and
\* leaves no module behind.
LoadReference ==
    /\ pc = "import"
    /\ \/ /\ ~SortRaises(DOMAIN DictOfRows(region_rows))
          /\ CANONICAL_TO_REGION' = DictOfRows(region_rows)
          /\ CANONICAL_NAMES' \in SortedOrders(DOMAIN DictOfRows(region_rows))
          /\ alias_map' = DictOfRows(alias_rows)
          /\ pc' = "ready"
       \/ /\ SortRaises(DOMAIN DictOfRows(region_rows))
          /\ pc' = "failed"
          /\ UNCHANGED <<CANONICAL_TO_REGION, CANONICAL_NAMES, alias_map>>
    /\ UNCHANGED <<raw, cleaned, result, region_rows, alias_rows, df, out, file_paths,
                   idx, all_unmapped, log>>

\* The raw values resolved after loading: the alias strings of the rows as
\* they are written in the file, and a country name.
LoadRawValues == {alias_rows[i][1] : i \in DOMAIN alias_rows} \cup {Chad}

\* normalize_country(raw, ALIAS) once the module is imported.
ServeResolve ==
    /\ pc = "ready"
    /\ \E r \in LoadRawValues :
          /\ raw' = r
          /\ result' = normalize_country(r, alias_map, CANONICAL_TO_REGION, CANONICAL_NAMES)
    /\ pc' = "resolved"
    /\ UNCHANGED <<cleaned, alias_map, CANONICAL_TO_REGION, CANONICAL_NAMES,
                   region_rows, alias_rows, df, out, file_paths, idx, all_unmapped, log>>

LoadNext == LoadReference \/ ServeResolve

SpecLoad == LoadInit /\ [][LoadNext]_vars

Loaded == pc \in {"ready", "resolved"}

\* C8: once the reference data is loaded, the keys of the alias index are the
\* cleaned forms of the alias strings of the rows, and resolving the alias
\* string of a row that names a country yields the kind 'alias'.
C8_AliasKeysAreCleaned ==
    Loaded =>
        /\ DOMAIN alias_map = {clean_text(alias_rows[i][1]) : i \in DOMAIN alias_rows}
        /\ pc = "resolved" =>
              \A i \in DOMAIN alias_rows :
                  (alias_rows[i][1] = raw /\ alias_rows[i][2] # <<>>) => Kind = "alias"

\* The same country twice among the rows of the canonical source.
DuplicateCountry ==
    \E i, j \in DOMAIN region_rows : i # j /\ region_rows[i][1] = region_rows[j][1]

\* One alias with two different countries among the rows of the alias source.
ConflictingAlias ==
    \E i, j \in DOMAIN alias_rows :
        /\ alias_rows[i][1] = alias_rows[j][1]
        /\ alias_rows[i][2] # alias_rows[j][2]

\* C9: with a duplicate country or a conflicting alias in the sources,
\* loading does not complete and no resolve is served.
C9_LoadFailsOnBadData ==
    (DuplicateCountry \/ ConflictingAlias) => ~Loaded

---------------------------------------------------------------------------
(* Inputs of the cleaner: texts put together from a few fragments *)

MaxCleanFrags == 4

CleanFrags == { <<"t","h","e">>, <<"T","h","e">>, <<" ">>, <<"o","f">>, <<".">>,
                <<"x">>, <<"u00C9">> }

CleanInit ==
    /\ pc = "start"
    /\ raw \in Texts(CleanFrags, MaxCleanFrags)
    /\ cleaned = <<>>
    /\ alias_map = Unused /\ CANONICAL_TO_REGION = Unused /\ CANONICAL_NAMES = Unused
    /\ result = Unused /\ region_rows = Unused /\ alias_rows = Unused
    /\ df = Unused /\ out = Unused /\ file_paths = Unused /\ idx = 0
    /\ all_unmapped = Unused /\ log = Unused

\* One more application of the cleaner: first to the raw text, then to what
\* the last application returned.
CleanStep ==
    /\ pc = "start"
    /\ Len(cleaned) < 2
    /\ cleaned' = Append(cleaned,
                         clean_text(IF cleaned = <<>> THEN raw ELSE cleaned[Len(cleaned)]))
    /\ UNCHANGED <<pc, raw, alias_map, CANONICAL_TO_REGION, CANONICAL_NAMES, result,
                   region_rows, alias_rows, df, out, file_paths, idx, all_unmapped, log>>

CleanNext == CleanStep

SpecClean == CleanInit /\ [][CleanNext]_vars

\* C1: the cleaner is idempotent: cleaning a cleaned text returns it unchanged.
C1_Idempotent == Len(cleaned) = 2 => cleaned[2] = cleaned[1]

=============================================================================
